---- MODULE Spec2Model ----
(***************************************************************************)
(* A model of the virtual filesystem layer of src/src/vfs.rs: the          *)
(* partition table and route resolver, the recursive tree reader, the      *)
(* change log with its time-window query, and the unimplemented write and  *)
(* delete operations.                                                      *)
(***************************************************************************)
EXTENDS Integers, Sequences, FiniteSets, TLC

VARIABLES
    partitions,      \* Vfs::partitions: partition name -> physical root path
    fs,              \* the real filesystem below the partitions: path -> entry kind
    change_history,  \* Vfs::change_history: sequence of VfsChange
    now,             \* whole seconds elapsed since Vfs::start_time
    call,            \* the last operation called on the Vfs, with its arguments
    ret,             \* what that operation returned
    in_order,        \* every add_change so far obeyed the caller's precondition
    consumer         \* a polling consumer of the change log

vars == <<partitions, fs, change_history, now, call, ret, in_order, consumer>>

(***************************************************************************)
(* Bounds of the model.                                                    *)
(***************************************************************************)
MaxTime == 2
MaxLen == 3

(***************************************************************************)
(* f64 timestamps.  A timestamp is a number of seconds or NaN; every       *)
(* comparison with NaN is false, as in IEEE 754.                           *)
(***************************************************************************)
Num(n) == [nan |-> FALSE, secs |-> n]
NaN == [nan |-> TRUE, secs |-> 0]
F64 == {Num(n) : n \in 0..MaxTime} \cup {NaN}

\* A plausible slip: > for >=.
gt_strict(a, b) == ~a.nan /\ ~b.nan /\ a.secs > b.secs

\* value.timestamp >= timestamp
ge(a, b) == ~a.nan /\ ~b.nan /\ a.secs >= b.secs

\* The order of timestamps as the properties below state it.
AtLeast(a, b) == ~a.nan /\ ~b.nan /\ a.secs >= b.secs
Below(a, b) == ~a.nan /\ ~b.nan /\ a.secs < b.secs

(***************************************************************************)
(* Routes.                                                                 *)
(***************************************************************************)
NoRoute == <<>>

(***************************************************************************)
(* The plugin gateway: PluginChain::handle_file_change, an                 *)
(* Option<Vec<route>>.  One raw route is filtered out (None), one expands  *)
(* to the empty list, one to itself and one to two routes.                 *)
(***************************************************************************)
None == [some |-> FALSE, routes |-> <<>>]
Some(v) == [some |-> TRUE, routes |-> v]

RawRoutes ==
    { <<"site", "noise">>, <<"site", "empty">>, <<"site", "a">>, <<"site", "m.lua">> }

handle_file_change(route) ==
    CASE route = <<"site", "noise">> -> None
      [] route = <<"site", "empty">> -> Some(<<>>)
      [] route = <<"site", "m.lua">> -> Some(<< <<"site", "m">>, <<"site", "m.lua">> >>)
      [] OTHER -> Some(<<route>>)

(***************************************************************************)
(* The change log.                                                         *)
(***************************************************************************)
VfsChange(timestamp, route) == [timestamp |-> timestamp, route |-> route]

\* for route in routes { self.change_history.push(VfsChange { timestamp, route }) }
RECURSIVE push_all(_, _, _)
push_all(history, timestamp, routes) ==
    IF routes = <<>> THEN history
    ELSE push_all(Append(history, VfsChange(timestamp, Head(routes))),
                  timestamp, Tail(routes))

\* A plausible slip: a route the gateway filters out is recorded all the same.
add_change_unfiltered(history, timestamp, route) ==
    LET handled == handle_file_change(route)
    IN  IF handled.some THEN push_all(history, timestamp, handled.routes)
        ELSE Append(history, VfsChange(timestamp, route))

\* A plausible slip: the new entries are put in front of the log.
add_change_in_front(history, timestamp, route) ==
    LET handled == handle_file_change(route)
    IN  IF handled.some THEN push_all(<<>>, timestamp, handled.routes) \o history
        ELSE history

add_change(history, timestamp, route) ==
    LET handled == handle_file_change(route)
    IN  IF handled.some THEN push_all(history, timestamp, handled.routes)
        ELSE history

\* A plausible slip: the scan goes on past an entry below the threshold.
RECURSIVE scan_no_break(_, _, _, _)
scan_no_break(history, timestamp, index, marker) ==
    IF index = 0 THEN marker
    ELSE IF ge(history[index].timestamp, timestamp)
         THEN scan_no_break(history, timestamp, index - 1, index)
         ELSE scan_no_break(history, timestamp, index - 1, marker)

\* The backward scan of changes_since: index is the entry looked at, marker the
\* Option<usize> so far (0 is None).
RECURSIVE scan(_, _, _, _)
scan(history, timestamp, index, marker) ==
    IF index = 0 THEN marker
    ELSE IF ge(history[index].timestamp, timestamp)
         THEN scan(history, timestamp, index - 1, index)
         ELSE marker

\* A plausible slip: the scan starts one entry short of the newest.
changes_since_marker_short(history, timestamp) ==
    IF history = <<>> THEN 0 ELSE scan(history, timestamp, Len(history) - 1, 0)

changes_since_marker(history, timestamp) ==
    scan(history, timestamp, Len(history), 0)

\* &self.change_history[index..], or &self.change_history[..0]
changes_since(history, timestamp) ==
    LET marker == changes_since_marker(history, timestamp)
    IN  IF marker # 0 THEN SubSeq(history, marker, Len(history))
        ELSE SubSeq(history, 1, 0)

current_time == Num(now)

(***************************************************************************)
(* The real filesystem.  A physical path is a sequence of file names as    *)
(* the operating system holds them; two of the names are not valid UTF-8   *)
(* ("f{FE}" and "f{FF}" stand for the bytes f\xFE and f\xFF).  Every       *)
(* path of Nodes has an entry kind:                                        *)
(*   absent       no such entry                                            *)
(*   vanished     listed by its directory, gone when its metadata is read  *)
(*   file         a regular file holding valid UTF-8                       *)
(*   file_denied  a regular file that cannot be opened                     *)
(*   file_binary  a regular file whose bytes are not valid UTF-8           *)
(*   dir          a directory                                              *)
(*   dir_denied   a directory that cannot be opened for enumeration        *)
(*   dir_ioerr    a directory whose enumeration yields an error entry      *)
(*   special      a fifo, socket or device                                 *)
(*   link_file    a symbolic link to a readable regular file               *)
(*   link_dir     a symbolic link to a directory (with the node's entries) *)
(*   link_broken  a symbolic link to nothing                               *)
(*   link_special a symbolic link to a fifo, socket or device              *)
(***************************************************************************)
OsNames == {"a", "f{FE}", "f{FF}"}

Root == <<"srv">>

Nodes ==
    {Root} \cup {Root \o <<n>> : n \in OsNames} \cup {Root \o <<"a", n>> : n \in {"a"}}

Kinds ==
    {"absent", "vanished", "file", "file_denied", "file_binary", "dir", "dir_denied",
     "dir_ioerr", "special", "link_file", "link_dir", "link_broken", "link_special"}

DirKinds == {"dir", "dir_denied", "dir_ioerr", "link_dir"}

\* The two entries whose names are not valid UTF-8 are files, if they exist.
KindsAt(path) ==
    IF path[Len(path)] \in {"f{FE}", "f{FF}"} THEN {"absent", "file", "file_denied"}
    ELSE Kinds

Parent(path) == SubSeq(path, 1, Len(path) - 1)

\* Only a directory has entries.
WellFormed(f) ==
    \A p \in Nodes :
        /\ f[p] \in KindsAt(p)
        /\ (p # Root /\ f[p] # "absent") => f[Parent(p)] \in DirKinds

Kind(path) == IF path \in Nodes THEN fs[path] ELSE "absent"

\* A plausible slip: fs::symlink_metadata, which reports the link itself.
symlink_metadata(path) ==
    CASE Kind(path) \in {"absent", "vanished"} -> "Err"
      [] Kind(path) \in {"dir", "dir_denied", "dir_ioerr"} -> "is_dir"
      [] Kind(path) \in {"file", "file_denied", "file_binary"} -> "is_file"
      [] OTHER -> "other"

\* fs::metadata follows symbolic links: what it reports for the path.
metadata(path) ==
    CASE Kind(path) \in {"absent", "vanished", "link_broken"} -> "Err"
      [] Kind(path) \in {"dir", "dir_denied", "dir_ioerr", "link_dir"} -> "is_dir"
      [] Kind(path) \in {"file", "file_denied", "file_binary", "link_file"} -> "is_file"
      [] OTHER -> "other"   \* special, link_special

\* File::open
open(path) == IF Kind(path) \in {"file", "file_binary", "link_file"} THEN "Ok" ELSE "Err"

\* Read::read_to_string: fails on bytes that are not valid UTF-8.  A file's
\* text is identified by where it is stored.
read_to_string(path) ==
    IF Kind(path) = "file_binary" THEN [ok |-> FALSE, contents |-> <<>>]
    ELSE [ok |-> TRUE, contents |-> path]

\* fs::read_dir: "Err" when the directory cannot be opened, "EntryErr" when an
\* entry of the iteration is an error, else the names of the entries in the
\* order the operating system yields them.
fs_read_dir(path, order) ==
    CASE Kind(path) \in {"dir", "link_dir"} ->
            [status |-> "Ok",
             names |-> SelectSeq(order, LAMBDA n : Kind(Append(path, n)) # "absent")]
      [] Kind(path) = "dir_ioerr" -> [status |-> "EntryErr", names |-> <<>>]
      [] OTHER -> [status |-> "Err", names |-> <<>>]

\* OsStr::to_string_lossy: every invalid byte becomes U+FFFD.
to_string_lossy(name) == IF name \in {"f{FE}", "f{FF}"} THEN "f{FFFD}" ELSE name

\* The orders in which a directory may yield its entries.
Perms(S) == {seq \in [1..Cardinality(S) -> S] : \A x \in S : \E i \in DOMAIN seq : seq[i] = x}
Orders == Perms(OsNames)

(***************************************************************************)
(* VfsItem and Result<VfsItem, ()>.                                        *)
(***************************************************************************)
NoItem == [type |-> "none"]
File(route, contents) == [type |-> "File", route |-> route, contents |-> contents]
Dir(route, children) == [type |-> "Dir", route |-> route, children |-> children]

Ok(item) == [tag |-> "Ok", item |-> item]
Err == [tag |-> "Err", item |-> NoItem]

EmptyMap == [k \in {} |-> NoItem]
\* HashMap::insert: a later value replaces the one stored under the same key.
insert(map, key, value) ==
    [k \in DOMAIN map \cup {key} |-> IF k = key THEN value ELSE map[k]]

(***************************************************************************)
(* The route resolver.                                                     *)
(***************************************************************************)
NoPath == <<>>

\* route_to_path: None is NoPath (no physical path is empty).  The segments
\* of the routes read here are single file names, so that joining them with
\* "/" and onto the partition root appends them as path components; a route
\* of the partition name alone is the root itself.
route_to_path(route) ==
    IF route = <<>> THEN NoPath
    ELSE IF Head(route) \notin DOMAIN partitions THEN NoPath
    ELSE IF Tail(route) = <<>> THEN partitions[Head(route)]
    ELSE partitions[Head(route)] \o Tail(route)

(***************************************************************************)
(* The tree reader.                                                        *)
(***************************************************************************)
\* A plausible slip: the child is given its parent's route.
child_route_of_parent(route, name) == route

\* let mut child_route = route.clone(); child_route.push(name.clone());
child_route(route, name) == Append(route, name)

read_file(route, path) ==
    IF open(path) = "Err" THEN Err
    ELSE IF ~read_to_string(path).ok THEN Err
    ELSE Ok(File(route, read_to_string(path).contents))

RECURSIVE read_path(_, _, _)
RECURSIVE read_children(_, _, _, _, _)

\* The loop of read_dir over the entries still to be read.
read_children(route, path, names, children, order) ==
    IF names = <<>> THEN Ok(Dir(route, children))
    ELSE LET entry_path == Append(path, Head(names))
             name == to_string_lossy(Head(names))
             child == read_path(child_route(route, name), entry_path, order)
         IN  IF child.tag = "Ok"
             THEN read_children(route, path, Tail(names),
                                insert(children, name, child.item), order)
             ELSE read_children(route, path, Tail(names), children, order)

read_dir(route, path, order) ==
    LET reader == fs_read_dir(path, order)
    IN  IF reader.status # "Ok" THEN Err
        ELSE read_children(route, path, reader.names, EmptyMap, order)

read_path(route, path, order) ==
    LET md == metadata(path)
    IN  IF md = "Err" THEN Err
        ELSE IF md = "is_dir" THEN read_dir(route, path, order)
        ELSE IF md = "is_file" THEN read_file(route, path)
        ELSE Err

read(route, order) ==
    IF route_to_path(route) = NoPath THEN Err
    ELSE read_path(route, route_to_path(route), order)

(***************************************************************************)
(* The state machine.  call and ret record the last operation and its      *)
(* result; a field an operation does not use holds a placeholder.          *)
(***************************************************************************)
Call(op, timestamp, route, item) ==
    [op |-> op, timestamp |-> timestamp, route |-> route, item |-> item]
Ret(tag, item, marker, slice) ==
    [tag |-> tag, item |-> item, marker |-> marker, slice |-> slice]

Routes ==
    { <<>>, <<"ghost">>, <<"ghost", "a">>, <<"site">>, <<"site", "a">>,
      <<"site", "a", "a">>, <<"site", "f{FFFD}">>, <<"notes">>, <<"notes", "a">> }

\* A small site: srv/ holds the directory a/, which holds the file a.
SiteFiles ==
    [p \in Nodes |-> CASE p = Root -> "dir"
                       [] p = Root \o <<"a">> -> "dir"
                       [] p = Root \o <<"a", "a">> -> "file"
                       [] OTHER -> "absent"]

\* Vfs::new, and the partitions the setup registers.
InitVfs ==
    /\ partitions = ("site" :> Root) @@ ("notes" :> (Root \o <<"a">>))
    /\ change_history = <<>>
    /\ now = 0
    /\ call = Call("new", Num(0), NoRoute, NoItem)
    /\ ret = Ret("Unit", NoItem, 0, <<>>)
    /\ in_order = TRUE
    /\ consumer = [pc |-> "idle", T |-> Num(0), Tnext |-> Num(0),
                   delivered |-> {}, queried |-> 0]

Init == InitVfs /\ fs = SiteFiles

\* The precondition changes_since leaves to the callers of add_change: a
\* timestamp is a number (NaN has no place in an order) and is at least that
\* of the entry appended last.
Precondition(history, timestamp) ==
    IF history = <<>> THEN AtLeast(timestamp, timestamp)
    ELSE AtLeast(timestamp, history[Len(history)].timestamp)

AddChange(timestamp, route) ==
    /\ Len(add_change(change_history, timestamp, route)) <= MaxLen
    /\ change_history' = add_change(change_history, timestamp, route)
    /\ in_order' = (in_order /\ Precondition(change_history, timestamp))
    /\ call' = Call("add_change", timestamp, route, NoItem)
    /\ ret' = Ret("Unit", NoItem, 0, <<>>)
    /\ UNCHANGED <<partitions, fs, now, consumer>>

ChangesSince(timestamp) ==
    /\ call' = Call("changes_since", timestamp, NoRoute, NoItem)
    /\ ret' = Ret("Slice", NoItem, changes_since_marker(change_history, timestamp),
                  changes_since(change_history, timestamp))
    /\ UNCHANGED <<partitions, fs, change_history, now, in_order, consumer>>

\* unimplemented!(): the call panics and returns nothing.
\* A plausible slip: a stub that reports success.
write_stub(route, item) == Ret("Ok", NoItem, 0, <<>>)

write(route, item) == Ret("Panic", NoItem, 0, <<>>)
delete(route) == Ret("Panic", NoItem, 0, <<>>)

Write(route, item) ==
    /\ call' = Call("write", Num(0), route, item)
    /\ ret' = write(route, item)
    /\ UNCHANGED <<partitions, fs, change_history, now, in_order, consumer>>

Delete(route) ==
    /\ call' = Call("delete", Num(0), route, NoItem)
    /\ ret' = delete(route)
    /\ UNCHANGED <<partitions, fs, change_history, now, in_order, consumer>>

Read(route, order) ==
    /\ call' = Call("read", Num(0), route, NoItem)
    /\ ret' = Ret(read(route, order).tag, read(route, order).item, 0, <<>>)
    /\ UNCHANGED <<partitions, fs, change_history, now, in_order, consumer>>

Next ==
    \/ \E timestamp \in F64, route \in RawRoutes : AddChange(timestamp, route)
    \/ \E timestamp \in F64 : ChangesSince(timestamp)
    \/ \E route \in Routes : \E item \in {File(route, <<>>), Dir(route, EmptyMap)} :
          Write(route, item)
    \/ \E route \in Routes : Delete(route)
    \/ \E route \in Routes, order \in Orders : Read(route, order)

Spec == Init /\ [][Next]_vars

(***************************************************************************)
(* Reading: every filesystem over Nodes, every route of Routes, every      *)
(* order of enumeration.                                                   *)
(***************************************************************************)
InitRead == InitVfs /\ fs \in {f \in [Nodes -> Kinds] : WellFormed(f)}

NextRead == \E route \in Routes, order \in Orders : Read(route, order)

SpecRead == InitRead /\ [][NextRead]_vars

(***************************************************************************)
(* Polling: a watcher that stamps its changes with a time not before the   *)
(* clock and not before the last entry, and a consumer that reads the      *)
(* clock, asks for the changes since the clock value of its previous       *)
(* round, and keeps the new value for the next round.  Their calls are     *)
(* serialized.                                                             *)
(***************************************************************************)
Tick ==
    /\ now < MaxTime
    /\ now' = now + 1
    /\ UNCHANGED <<partitions, fs, change_history, call, ret, in_order, consumer>>

WatcherAddChange(timestamp, route) ==
    /\ AtLeast(timestamp, current_time)
    /\ Precondition(change_history, timestamp)
    /\ AddChange(timestamp, route)

ConsumerReadClock ==
    /\ consumer.pc = "idle"
    /\ consumer' = [consumer EXCEPT !.pc = "query", !.Tnext = current_time]
    /\ call' = Call("current_time", Num(0), NoRoute, NoItem)
    /\ ret' = Ret("Time", NoItem, 0, <<>>)
    /\ UNCHANGED <<partitions, fs, change_history, now, in_order>>

\* The entries of a slice &change_history[marker..], by their place in the log.
SliceIndices(history, marker) == IF marker = 0 THEN {} ELSE marker..Len(history)

ConsumerQuery ==
    /\ consumer.pc = "query"
    /\ call' = Call("changes_since", consumer.T, NoRoute, NoItem)
    /\ ret' = Ret("Slice", NoItem, changes_since_marker(change_history, consumer.T),
                  changes_since(change_history, consumer.T))
    /\ consumer' =
          [pc |-> "idle", T |-> consumer.Tnext, Tnext |-> consumer.Tnext,
           delivered |-> consumer.delivered \cup
                SliceIndices(change_history,
                             changes_since_marker(change_history, consumer.T)),
           queried |-> Len(change_history)]
    /\ UNCHANGED <<partitions, fs, change_history, now, in_order>>

NextPoll ==
    \/ Tick
    \/ \E timestamp \in F64, route \in RawRoutes : WatcherAddChange(timestamp, route)
    \/ ConsumerReadClock
    \/ ConsumerQuery

SpecPoll == Init /\ [][NextPoll]_vars

(***************************************************************************)
(* Properties of the change log.                                           *)
(***************************************************************************)
Timestamp(i) == change_history[i].timestamp
Suffix(k) == SubSeq(change_history, k, Len(change_history))
Sorted(history) ==
    \A i, j \in 1..Len(history) :
        i < j => AtLeast(history[j].timestamp, history[i].timestamp)

\* What add_change(timestamp, route) is to append.
Expansion(timestamp, route) ==
    LET handled == handle_file_change(route)
    IN  IF handled.some
        THEN [i \in 1..Len(handled.routes) |-> VfsChange(timestamp, handled.routes[i])]
        ELSE <<>>

\* The result of the last call, a changes_since(t), is the suffix from k on,
\* every entry of it is at or above t, and it is maximal.
MaximalSuffixFrom(k, t) ==
    /\ ret.slice = Suffix(k)
    /\ \A i \in k..Len(change_history) : AtLeast(Timestamp(i), t)
    /\ k > 1 => ~AtLeast(Timestamp(k - 1), t)

\* It holds every entry at or above t and none below t.
CompleteFrom(k, t) ==
    /\ \A i \in 1..Len(change_history) : AtLeast(Timestamp(i), t) => i >= k
    /\ \A i \in k..Len(change_history) : ~Below(Timestamp(i), t)

EmptyWhenNoneQualifies(t) ==
    (\A i \in 1..Len(change_history) : ~AtLeast(Timestamp(i), t)) => ret.slice = <<>>

\* C1, as claimed: on a log whose timestamps were supplied in non-decreasing
\* order, changes_since(t) returns the maximal suffix of entries with
\* timestamp >= t; it holds every entry >= t and none < t, it is the whole log
\* when no entry is below t, and it is empty when no entry qualifies.
C1_Original ==
    (in_order /\ call.op = "changes_since") =>
        /\ \E k \in 1..(Len(change_history) + 1) :
              MaximalSuffixFrom(k, call.timestamp) /\ CompleteFrom(k, call.timestamp)
        /\ (\A i \in 1..Len(change_history) : ~Below(Timestamp(i), call.timestamp))
              => ret.slice = change_history
        /\ EmptyWhenNoneQualifies(call.timestamp)

\* C1, amended: the same, except that the result is the whole log when every
\* entry is at or above t; that no entry is below t does not suffice when the
\* threshold is NaN, which compares false both ways.
C1_MaximalSuffix ==
    (in_order /\ call.op = "changes_since") =>
        /\ \E k \in 1..(Len(change_history) + 1) :
              MaximalSuffixFrom(k, call.timestamp) /\ CompleteFrom(k, call.timestamp)
        /\ (\A i \in 1..Len(change_history) : AtLeast(Timestamp(i), call.timestamp))
              => ret.slice = change_history
        /\ EmptyWhenNoneQualifies(call.timestamp)

\* A query on an ordered log of three entries that returns the last two.
C1_Witness ==
    /\ in_order /\ call.op = "changes_since"
    /\ Len(change_history) = 3 /\ Len(ret.slice) = 2
    /\ Below(Timestamp(1), call.timestamp)

\* C2: add_change(t, raw_route) only appends, one entry (t, r) for each route r
\* the gateway yields for raw_route, in the gateway's order; it appends nothing
\* when the gateway yields no routes; and no operation changes, reorders or
\* removes an entry already in the log.
C2_PureAppend ==
    [][ /\ Len(change_history') >= Len(change_history)
        /\ SubSeq(change_history', 1, Len(change_history)) = change_history
        /\ call'.op = "add_change" =>
              change_history' = change_history \o Expansion(call'.timestamp, call'.route)
        /\ call'.op # "add_change" => change_history' = change_history ]_vars

\* An add_change whose route the gateway expands to two routes has appended
\* two entries with its timestamp behind an older entry.
C2_Witness ==
    /\ call.op = "add_change" /\ call.route = <<"site", "m.lua">>
    /\ Len(change_history) = 3
    /\ change_history[2] = VfsChange(call.timestamp, <<"site", "m">>)
    /\ change_history[3] = VfsChange(call.timestamp, <<"site", "m.lua">>)
    /\ change_history[1].timestamp # call.timestamp

\* C3, as claimed: after any sequence of add_change calls the log is sorted
\* by non-decreasing timestamp.
C3_Original == Sorted(change_history)

\* C3, amended: the log is sorted by non-decreasing timestamp as long as every
\* add_change was called with a timestamp that is a number and is at least
\* that of the entry appended last; add_change itself does not check it.
C3_SortedWhenInOrder == in_order => Sorted(change_history)

C3_Witness ==
    /\ in_order /\ Len(change_history) = 3
    /\ Below(Timestamp(1), Timestamp(2)) /\ Below(Timestamp(2), Timestamp(3))

\* C9, as claimed: whatever the timestamps, the result of changes_since(t) is a
\* suffix of the log, each of its entries has timestamp >= t, and when it is
\* neither empty nor the whole log the entry just before it has timestamp < t.
C9_Original ==
    call.op = "changes_since" =>
        \E k \in 1..(Len(change_history) + 1) :
            /\ ret.slice = Suffix(k)
            /\ \A i \in k..Len(change_history) : AtLeast(Timestamp(i), call.timestamp)
            /\ (ret.slice # <<>> /\ k > 1) => Below(Timestamp(k - 1), call.timestamp)

\* C9, amended: ... the entry just before it does not have timestamp >= t: its
\* timestamp is below t or is NaN.
C9_SoundSuffix ==
    call.op = "changes_since" =>
        \E k \in 1..(Len(change_history) + 1) :
            /\ ret.slice = Suffix(k)
            /\ \A i \in k..Len(change_history) : AtLeast(Timestamp(i), call.timestamp)
            /\ (ret.slice # <<>> /\ k > 1) => ~AtLeast(Timestamp(k - 1), call.timestamp)

\* A query on an unsorted log that misses an entry at or above the threshold:
\* the result is the last entry alone, the first entry qualifies as well.
C9_Witness ==
    /\ call.op = "changes_since" /\ ~in_order
    /\ Len(change_history) = 3 /\ Len(ret.slice) = 1
    /\ AtLeast(Timestamp(1), call.timestamp)
    /\ Below(Timestamp(2), call.timestamp)

\* C8: write and delete never return: each call panics, returns no Ok, and
\* leaves partitions and change_history as they were.
C8_WriteDeleteFail ==
    [][ call'.op \in {"write", "delete"} =>
            /\ ret'.tag = "Panic"
            /\ partitions' = partitions
            /\ change_history' = change_history ]_vars

C8_Witness ==
    /\ call.op = "write" /\ call.item.type = "Dir" /\ ret.tag = "Panic"
    /\ Len(change_history) = 2

(***************************************************************************)
(* Properties of polling.                                                  *)
(***************************************************************************)
\* C10: a consumer that polls with the clock value of its previous round
\* misses nothing: when a query has returned, every entry that was in the log
\* at that query has been in the result of that query or of an earlier one.
C10_NoChangeMissed ==
    consumer.pc = "idle" => \A i \in 1..consumer.queried : i \in consumer.delivered

\* A later round of polling, after the clock has moved, that has delivered a
\* log of three entries the last of which is stamped ahead of the clock.
C10_Witness ==
    /\ consumer.pc = "idle" /\ consumer.queried = 3 /\ consumer.delivered = 1..3
    /\ now = 1 /\ consumer.T = Num(1)
    /\ Timestamp(1) = Num(0) /\ Timestamp(3) = Num(2)
    /\ Len(ret.slice) = 2

(***************************************************************************)
(* Properties of reading.  They speak of the filesystem directly: of the   *)
(* entry a route addresses and of the entries of a directory.              *)
(***************************************************************************)
Resolves(route) == route # <<>> /\ Head(route) \in DOMAIN partitions
Target(route) == partitions[Head(route)] \o Tail(route)

Links == {"link_file", "link_dir", "link_broken", "link_special"}

\* The entries a directory lists, and those of them whose own read succeeds.
Listed(path) == {n \in OsNames : Kind(Append(path, n)) # "absent"}
ReadSucceeds(path) == Kind(path) \in {"file", "dir", "link_file", "link_dir"}
Readable(path) == {n \in Listed(path) : ReadSucceeds(Append(path, n))}

\* A file name as text.
NameOf(n) == IF n \in {"f{FE}", "f{FF}"} THEN "f{FFFD}" ELSE n

\* In the snapshot item of the directory at path, and below it, the children
\* are the readable entries, one for each, under their names.
RECURSIVE HoldsReadable(_, _)
HoldsReadable(item, path) ==
    item.type = "Dir" =>
        /\ Cardinality(DOMAIN item.children) = Cardinality(Readable(path))
        /\ \A n \in Readable(path) :
              /\ NameOf(n) \in DOMAIN item.children
              /\ HoldsReadable(item.children[NameOf(n)], Append(path, n))

\* C4: the read of a directory that can be enumerated succeeds, and its
\* children are exactly the N entries whose own read succeeds, keyed by name,
\* whatever the M others fail with, at every depth.
C4_PartialSuccess ==
    (call.op = "read" /\ Resolves(call.route)
        /\ Kind(Target(call.route)) \in {"dir", "link_dir"}) =>
            /\ ret.tag = "Ok"
            /\ ret.item.type = "Dir"
            /\ HoldsReadable(ret.item, Target(call.route))

\* The same with the children taken as a set of names: a key for every
\* readable entry and no other key.
RECURSIVE KeysOfReadable(_, _)
KeysOfReadable(item, path) ==
    item.type = "Dir" =>
        /\ DOMAIN item.children = {NameOf(n) : n \in Readable(path)}
        /\ \A n \in Readable(path) :
              Kind(Append(path, n)) \in {"dir", "link_dir"} =>
                  KeysOfReadable(item.children[NameOf(n)], Append(path, n))

PartialSuccessByName ==
    (call.op = "read" /\ Resolves(call.route)
        /\ Kind(Target(call.route)) \in {"dir", "link_dir"}) =>
            /\ ret.tag = "Ok"
            /\ ret.item.type = "Dir"
            /\ KeysOfReadable(ret.item, Target(call.route))

\* Why a read of the route fails, in the terms of the error taxonomy.
Cause(route) ==
    IF ~Resolves(route) THEN "RouteError"
    ELSE IF Kind(Target(route)) \in {"special", "link_special"} THEN "UnsupportedType"
    ELSE "ReadError"

TopFails(route) == ~Resolves(route) \/ ~ReadSucceeds(Target(route))

\* C5: a read of an empty route or of an unknown partition fails, with a
\* typed error (RouteError) that tells it from a read that fails on its
\* top-level entry for another cause (ReadError, UnsupportedType).
C5_Original ==
    call.op = "read" =>
        /\ ~Resolves(call.route) => ret.tag = "Err"
        /\ ret.tag = "Err" =>
              \A route \in Routes, order \in Orders :
                  (read(route, order).tag = "Err" /\ Cause(route) # Cause(call.route))
                      => read(route, order) # [tag |-> ret.tag, item |-> ret.item]

\* What the code does instead: a read fails exactly when the route is empty
\* or of an unknown partition, or when the top-level entry is missing,
\* unreadable or neither a file nor a directory; the failure carries no item,
\* and it is one and the same value Err(()) whatever the cause.
C5_UntypedFailure ==
    call.op = "read" =>
        /\ ret.tag = "Err" <=> TopFails(call.route)
        /\ ret.tag \in {"Ok", "Err"}
        /\ ret.tag = "Err" => ret = Ret("Err", NoItem, 0, <<>>)
        /\ ret.tag = "Ok" => ret.item.type \in {"File", "Dir"}

\* Every child of a directory item has the directory's route with its key
\* appended, all the way down.
RECURSIVE RouteInvariant(_)
RouteInvariant(item) ==
    item.type = "Dir" =>
        \A name \in DOMAIN item.children :
            /\ item.children[name].route = Append(item.route, name)
            /\ item.children[name].route[Len(item.children[name].route)] = name
            /\ RouteInvariant(item.children[name])

\* C6: the item a successful read(route) returns has that route, and every
\* child anywhere in it has its parent's route with its own key appended.
C6_RouteInvariant ==
    (call.op = "read" /\ ret.tag = "Ok") =>
        /\ ret.item.route = call.route
        /\ RouteInvariant(ret.item)

\* A read of the partition root that returned a directory holding a
\* directory with a file in it, and beside it a file under an invalid name.
C6_Witness ==
    /\ call.op = "read" /\ call.route = <<"site">> /\ ret.tag = "Ok"
    /\ ret.item.type = "Dir"
    /\ DOMAIN ret.item.children = {"a", "f{FFFD}"}
    /\ ret.item.children["a"].type = "Dir"
    /\ DOMAIN ret.item.children["a"].children = {"a"}
    /\ ret.item.children["a"].children["a"].type = "File"

\* No item of the snapshot of the directory at path stems from an entry of
\* one of the kinds.
RECURSIVE Omits(_, _, _)
Omits(item, path, kinds) ==
    item.type = "Dir" =>
        \A n \in Listed(path) :
            /\ Kind(Append(path, n)) \in kinds => NameOf(n) \notin DOMAIN item.children
            /\ (Kind(Append(path, n)) \in {"dir", "link_dir"} \ kinds) =>
                  Omits(item.children[NameOf(n)], Append(path, n), kinds)

\* C7, as claimed: an entry that is neither a regular file nor a directory,
\* a symbolic link included, fails the read when it is the top-level entry
\* and is left out when it is a child.
C7_Original ==
    (call.op = "read" /\ Resolves(call.route)) =>
        /\ Kind(Target(call.route)) \in Links \cup {"special"} => ret.tag = "Err"
        /\ ret.tag = "Ok" => Omits(ret.item, Target(call.route), Links \cup {"special"})

\* Links are followed: the item of a link to a file is a File, that of a link
\* to a directory a Dir, at every depth.
RECURSIVE FollowsLinks(_, _)
FollowsLinks(item, path) ==
    item.type = "Dir" =>
        \A n \in Listed(path) :
            LET kind == Kind(Append(path, n))
            IN  /\ kind = "link_file" =>
                      /\ NameOf(n) \in DOMAIN item.children
                      /\ item.children[NameOf(n)].type = "File"
                /\ kind = "link_dir" =>
                      /\ NameOf(n) \in DOMAIN item.children
                      /\ item.children[NameOf(n)].type = "Dir"
                /\ kind \in {"dir", "link_dir"} =>
                      FollowsLinks(item.children[NameOf(n)], Append(path, n))

\* C7, amended: symbolic links are followed.  An entry that after following
\* links is neither a regular file nor a directory (a special file, a link to
\* one) and a link to nothing fail the read at the top level and are left out
\* as children; a link to a readable file is read as a File and a link to a
\* directory as a Dir.
C7_LinksFollowed ==
    (call.op = "read" /\ Resolves(call.route)) =>
        LET kind == Kind(Target(call.route))
            unsupported == {"special", "link_special", "link_broken"}
        IN  /\ kind \in unsupported => ret.tag = "Err"
            /\ kind = "link_file" => (ret.tag = "Ok" /\ ret.item.type = "File")
            /\ kind = "link_dir" => (ret.tag = "Ok" /\ ret.item.type = "Dir")
            /\ ret.tag = "Ok" =>
                  /\ Omits(ret.item, Target(call.route), unsupported)
                  /\ FollowsLinks(ret.item, Target(call.route))

\* A read of a directory whose entry a is a link to a directory that holds
\* nothing but a special file.
C7_Witness ==
    /\ call.op = "read" /\ call.route = <<"site">> /\ ret.tag = "Ok"
    /\ Kind(Root \o <<"a">>) = "link_dir"
    /\ Kind(Root \o <<"a", "a">>) = "special"
    /\ "a" \in DOMAIN ret.item.children
    /\ ret.item.children["a"].type = "Dir"
    /\ DOMAIN ret.item.children["a"].children = {}
====
